---- MODULE Spec2Model ----
(***************************************************************************)
(* The statement grammar of askama_parser (src/askama_parser/src/node.rs)  *)
(* as a state machine.                                                     *)
(*                                                                         *)
(* Template text is a TLA+ string, read character by character exactly as  *)
(* the nom combinators of node.rs read a &str.  A parser is an operator    *)
(* from the remaining input to a result record                             *)
(*     [k |-> "Ok" | "Error" | "Failure", i |-> remaining input, v |-> _]  *)
(* where "Error" is nom's recoverable Err::Error and "Failure" is nom's    *)
(* fatal Err::Failure.                                                     *)
(*                                                                         *)
(* Five specifications share the module:                                   *)
(*   Spec         Node::many over a template that arrives one tag or one   *)
(*                run of text at a time; the open constructs are a stack.  *)
(*   SpecLit      Node::many over text typed character by character.       *)
(*   SpecComment  Node::comment, one step per iteration of its body loop,  *)
(*                under the default and a configured Syntax.               *)
(*   SpecRaw      Node::parse on a raw construct, one step per iteration   *)
(*                of skip_till.                                            *)
(*   SpecTarget   Target::parse on patterns written from their structure.  *)
(* Each leaves the variables of the others at their idle values.           *)
(*                                                                         *)
(* Local values are bound with Bind([x \in {e} |-> body]), which is body   *)
(* with x standing for the value of e, so that e is evaluated once.        *)
(***************************************************************************)
EXTENDS Naturals, Integers, Sequences, FiniteSets, TLC

VARIABLES
    \* Node::many over a template read tag by tag
    loop_depth,  \* State.loop_depth: the loop-nesting counter
    stack,       \* the constructs whose body is being parsed (the call stack)
    status,      \* "idle" | "run" | "failed" | "done" | "panic"
    chunk,       \* the piece of the template read by the last step
    node,        \* the node completed by the last step, or NoNode
    \* Node::comment over one input
    csyntax,     \* State.syntax: the configured delimiters
    cin,         \* the whole input, as the sequence of its pieces
    ci,          \* i: the input not yet read
    clevel,      \* level of the body loop
    cpc,         \* "idle" | "input" | "body" | "end" | "done"
    cpws,        \* pws of line 463
    ctail,       \* tail of line 463
    cres,        \* the result: "none" | "Ok" | "Error" | "Failure"
    cnode,       \* the node of an Ok result
    \* Node::many over literal text
    lin,         \* the whole input
    li,          \* the input not yet read
    lres,        \* "idle" | "input" | "many" | "done" | "failed"
    lnodes,      \* the nodes collected by many0
    \* Node::parse over one raw construct
    rin,         \* the whole input, as the sequence of its pieces
    ri,          \* i: the input not yet read
    rstart,      \* start of skip_till: the input after the opening tag
    rws1,        \* ws1 of line 391
    rpc,         \* "idle" | "input" | "skip" | "done"
    rres,        \* the result: "none" | "Ok" | "Error" | "Failure"
    rnode,       \* the node of an Ok result
    \* Target::parse over one pattern
    tpats,       \* the patterns written so far: [text, val] each
    tpc,         \* "idle" | "write" | "done"
    tres,        \* the result of Target::parse on the pattern
    tlet         \* the result of Node::let on a `let` tag with the pattern

mainVars == <<loop_depth, stack, status, chunk, node>>
commentVars == <<csyntax, cin, ci, clevel, cpc, cpws, ctail, cres, cnode>>
litVars == <<lin, li, lres, lnodes>>
rawVars == <<rin, ri, rstart, rws1, rpc, rres, rnode>>
targetVars == <<tpats, tpc, tres, tlet>>
vars == <<mainVars, commentVars, litVars, rawVars, targetVars>>

----------------------------------------------------------------------------
(* Bounds of the model *)

MaxDepth == 2      \* constructs open at once
MaxBranches == 3   \* branches of one `if`
MaxArms == 2       \* `when` arms of one `match`
MaxRawLen == 9     \* characters inside one raw block
MaxPieces == 5     \* pieces of one comment input
MaxLitLen == 4     \* characters of one literal-text input

----------------------------------------------------------------------------
(* Strings as character sequences *)

\* Bind([x \in {e} |-> body]) is body with x bound to the value of e
Bind(f) == f[CHOOSE v \in DOMAIN f : TRUE]

Ch(s, n) == SubSeq(s, n, n)
Take(s, n) == SubSeq(s, 1, n)
Drop(s, n) == SubSeq(s, n + 1, Len(s))
StartsWith(s, p) == Len(p) <= Len(s) /\ SubSeq(s, 1, Len(p)) = p
EndsWith(s, p) == Len(p) <= Len(s) /\ SubSeq(s, Len(s) - Len(p) + 1, Len(s)) = p

\* The least n such that p occurs in s at offset n (0-based), or Len(s)+1.
RECURSIVE FindFrom(_, _, _)
FindFrom(s, p, n) ==
    IF n + Len(p) > Len(s) THEN Len(s) + 1
    ELSE IF SubSeq(s, n + 1, n + Len(p)) = p THEN n
    ELSE FindFrom(s, p, n + 1)
Find(s, p) == FindFrom(s, p, 0)
Contains(s, p) == Find(s, p) <= Len(s)

(* Results of a parser *)
Ok(i, v) == [k |-> "Ok", i |-> i, v |-> v]
Error(i) == [k |-> "Error", i |-> i, v |-> <<>>]
Failure(i) == [k |-> "Failure", i |-> i, v |-> <<>>]

\* nom::combinator::cut: a recoverable error becomes fatal.
cut(r) == IF r.k = "Error" THEN [r EXCEPT !.k = "Failure"] ELSE r
\* nom::combinator::opt on input i: a recoverable error becomes Ok(None).
opt(r, i) == IF r.k = "Error" THEN Ok(i, "None") ELSE r
\* nom::bytes::complete::tag
tag(t, i) == IF StartsWith(i, t) THEN Ok(Drop(i, Len(t)), t) ELSE Error(i)
\* nom::character::complete::char
char(c, i) == tag(c, i)

----------------------------------------------------------------------------
(* Lexical primitives of the parent module (use super::{...}, line 12) *)

Lower == {"a","b","c","d","e","f","g","h","i","j","k","l","m","n","o","p","q",
          "r","s","t","u","v","w","x","y","z"}
Upper == {"A","B","C","D","E","F","G","H","I","J","K","L","M","N","O","P","Q",
          "R","S","T","U","V","W","X","Y","Z"}
Digit == {"0","1","2","3","4","5","6","7","8","9"}
is_ws(c) == c \in {" ", "\t", "\r", "\n"}
IsIdStart(c) == c \in Lower \cup Upper \cup {"_"}
IsIdTail(c) == IsIdStart(c) \/ c \in Digit

RECURSIVE SpanLen(_, _)
\* number of leading characters of s that are whitespace (what = "ws"),
\* identifier characters ("id") or digits ("num")
SpanLen(s, what) ==
    IF s = "" THEN 0
    ELSE Bind([c \in {Ch(s, 1)} |->
             Bind([isIn \in {CASE what = "ws" -> is_ws(c)
                     [] what = "id" -> IsIdTail(c)
                     [] OTHER -> c \in Digit} |->
         IF isIn THEN 1 + SpanLen(Drop(s, 1), what) ELSE 0])])

skip_ws(i) == Drop(i, SpanLen(i, "ws"))
\* super::ws(p) is ws_post(p(skip_ws(i))): whitespace is skipped on both sides
ws_post(r) == IF r.k = "Ok" THEN [r EXCEPT !.i = skip_ws(@)] ELSE r

identifier(i) ==
    IF i # "" /\ IsIdStart(Ch(i, 1))
    THEN Bind([n \in {SpanLen(i, "id")} |-> Ok(Drop(i, n), Take(i, n))])
    ELSE Error(i)

keyword(kw, i) ==
    Bind([r \in {identifier(i)} |->
    IF r.k = "Ok" /\ r.v = kw THEN r ELSE Error(i)])

\* a quoted literal: the quote, anything but the quote, the quote
quoted(q, i) ==
    IF i # "" /\ Ch(i, 1) = q /\ Contains(Drop(i, 1), q)
    THEN Bind([n \in {Find(Drop(i, 1), q)} |->
         Ok(Drop(i, n + 2), SubSeq(i, 2, n + 1))])
    ELSE Error(i)
str_lit(i) == quoted("\"", i)
char_lit(i) == quoted("'", i)

num_lit(i) ==
    Bind([n \in {SpanLen(i, "num")} |->
    IF n = 0 THEN Error(i)
       ELSE Bind([j \in {Drop(i, n)} |->
                Bind([m \in {IF StartsWith(j, ".") THEN SpanLen(Drop(j, 1), "num") ELSE 0} |->
            IF m > 0 THEN Ok(Drop(i, n + 1 + m), Take(i, n + 1 + m))
               ELSE Ok(j, Take(i, n))])])])

bool_lit(i) ==
    Bind([f \in {keyword("false", i)} |-> IF f.k = "Ok" THEN f ELSE keyword("true", i)])

HasUpper(s) == \E n \in 1..Len(s) : Ch(s, n) \in Upper

RECURSIVE path_tail(_, _)
\* separated_list1(ws(tag("::")), identifier) after its first identifier
path_tail(i, acc) ==
    Bind([sep \in {ws_post(tag("::", skip_ws(i)))} |->
    IF sep.k # "Ok" THEN Ok(i, acc)
    ELSE Bind([id \in {identifier(sep.i)} |->
         IF id.k # "Ok" THEN Ok(i, acc)
            ELSE path_tail(id.i, Append(acc, id.v))])])

path(i) ==
    Bind([root \in {ws_post(tag("::", skip_ws(i)))} |->
        Bind([i1 \in {IF root.k = "Ok" THEN root.i ELSE i} |->
        Bind([pre \in {IF root.k = "Ok" THEN <<"">> ELSE <<>>} |->
        Bind([start \in {identifier(i1)} |->
        Bind([sep \in {IF start.k = "Ok" THEN ws_post(tag("::", skip_ws(start.i)))
               ELSE Error(i)} |->
        Bind([first \in {IF sep.k = "Ok" THEN identifier(sep.i) ELSE Error(i)} |->
        Bind([single \in {identifier(i)} |->
    IF first.k = "Ok"
       THEN path_tail(first.i, pre \o <<start.v, first.v>>)
       ELSE IF single.k = "Ok" /\ HasUpper(single.v)
            THEN Ok(single.i, <<single.v>>)
            ELSE Error(i)])])])])])])])

\* The expression grammar is external; an expression here is a variable,
\* a string literal or a number.
Expr_parse(i) ==
    Bind([id \in {identifier(i)} |->
    IF id.k = "Ok" THEN Ok(id.i, <<"Var", id.v>>)
    ELSE Bind([s \in {str_lit(i)} |->
         IF s.k = "Ok" THEN Ok(s.i, <<"StrLit", s.v>>)
         ELSE Bind([n \in {num_lit(i)} |->
              IF n.k = "Ok" THEN Ok(n.i, <<"NumLit", n.v>>) ELSE Error(i)])])])

RECURSIVE args_tail(_, _)
args_tail(i, acc) ==
    Bind([sep \in {char(",", i)} |->
    IF sep.k # "Ok" THEN Ok(i, acc)
    ELSE Bind([e \in {ws_post(Expr_parse(skip_ws(sep.i)))} |->
         IF e.k # "Ok" THEN Ok(i, acc) ELSE args_tail(e.i, Append(acc, e.v))])])

\* Expr::parse_arguments: a parenthesized, comma-separated expression list
Expr_parse_arguments(i) ==
    Bind([open \in {ws_post(char("(", skip_ws(i)))} |->
    IF open.k # "Ok" THEN Error(i)
    ELSE Bind([e \in {ws_post(Expr_parse(skip_ws(open.i)))} |->
             Bind([l \in {IF e.k = "Ok" THEN args_tail(e.i, <<e.v>>) ELSE Ok(open.i, <<>>)} |->
             Bind([close \in {ws_post(char(")", skip_ws(l.i)))} |->
         IF close.k = "Ok" THEN Ok(close.i, l.v) ELSE Error(i)])])])])

\* State::tag_block_start and its siblings: tag(self.syntax.<delimiter>)
DefaultSyntax ==
    [block_start |-> "{%", block_end |-> "%}",
     expr_start |-> "{{", expr_end |-> "}}",
     comment_start |-> "{#", comment_end |-> "#}"]
tag_block_start(s, i) == tag(s.block_start, i)
tag_block_end(s, i) == tag(s.block_end, i)
tag_expr_start(s, i) == tag(s.expr_start, i)
tag_expr_end(s, i) == tag(s.expr_end, i)
tag_comment_start(s, i) == tag(s.comment_start, i)
tag_comment_end(s, i) == tag(s.comment_end, i)

\* State::enter_loop, State::leave_loop, State::is_in_loop
enter_loop(d) == d + 1
leave_loop(d) == d - 1
is_in_loop(d) == d > 0

\* super::split_ws_parts: leading whitespace, core, trailing whitespace
RECURSIVE TrailLen(_)
TrailLen(s) ==
    IF s = "" \/ ~is_ws(Ch(s, Len(s))) THEN 0 ELSE 1 + TrailLen(Take(s, Len(s) - 1))
split_ws_parts(s) ==
    Bind([a \in {SpanLen(s, "ws")} |->
        Bind([t \in {Drop(s, a)} |->
        Bind([b \in {TrailLen(t)} |->
    [type |-> "Lit", lws |-> Take(s, a), val |-> Take(t, Len(t) - b),
        rws |-> Drop(t, Len(t) - b)]])])])

----------------------------------------------------------------------------
(* Whitespace (lines 581-603) *)

\* From<char> for Whitespace
Whitespace_from(c) ==
    CASE c = "+" -> "Preserve"
      [] c = "-" -> "Suppress"
      [] c = "~" -> "Minimize"

\* Whitespace::parse
Whitespace_parse(i) ==
    IF i # "" /\ Ch(i, 1) \in {"-", "+", "~"}
    THEN Ok(Drop(i, 1), Whitespace_from(Ch(i, 1)))
    ELSE Error(i)

\* opt(Whitespace::parse)
opt_Whitespace(i) == opt(Whitespace_parse(i), i)

\* struct Ws(Option<Whitespace>, Option<Whitespace>)
Ws(l, r) == <<l, r>>

----------------------------------------------------------------------------
(* Target: the pattern grammar (lines 477-579) *)

\* map(opt(ws(char(c))), |o| o.is_some())
opt_char(c, i) ==
    Bind([r \in {ws_post(char(c, skip_ws(i)))} |->
    [is |-> r.k = "Ok", i |-> IF r.k = "Ok" THEN r.i ELSE i]])

\* Target::lit
Target_lit(i) ==
    Bind([s \in {str_lit(i)} |->
    IF s.k = "Ok" THEN Ok(s.i, <<"StrLit", s.v>>)
    ELSE Bind([c \in {char_lit(i)} |->
    IF c.k = "Ok" THEN Ok(c.i, <<"CharLit", c.v>>)
    ELSE Bind([n \in {num_lit(i)} |->
    IF n.k = "Ok" THEN Ok(n.i, <<"NumLit", n.v>>)
    ELSE Bind([b \in {bool_lit(i)} |->
    IF b.k = "Ok" THEN Ok(b.i, <<"BoolLit", b.v>>) ELSE Error(i)])])])])

RECURSIVE Target_parse(_)
RECURSIVE Target_fold(_, _)
RECURSIVE Target_list(_, _, _)
RECURSIVE Target_named(_)

\* the fold with each target put in front of the earlier ones
Target_fold_front(i, targets) ==
    Bind([sep \in {ws_post(char(",", skip_ws(i)))} |->
    IF sep.k # "Ok" THEN Ok(i, targets)
    ELSE Bind([t \in {Target_parse(sep.i)} |->
         IF t.k = "Failure" THEN t
         ELSE IF t.k = "Error" THEN Ok(i, targets)
         ELSE Target_fold(t.i, <<t.v>> \o targets)])])

\* fold_many0(preceded(ws(char(',')), Self::parse), ..) of lines 516-522
Target_fold(i, targets) ==
    Bind([sep \in {ws_post(char(",", skip_ws(i)))} |->
    IF sep.k # "Ok" THEN Ok(i, targets)
    ELSE Bind([t \in {Target_parse(sep.i)} |->
         IF t.k = "Failure" THEN t
         ELSE IF t.k = "Error" THEN Ok(i, targets)
         ELSE Target_fold(t.i, Append(targets, t.v))])])

\* separated_list1(ws(char(',')), Self::parse | Self::named) after its
\* first element
Target_list(i, acc, named) ==
    Bind([sep \in {ws_post(char(",", skip_ws(i)))} |->
    IF sep.k # "Ok" THEN Ok(i, acc)
    ELSE Bind([t \in {IF named THEN Target_named(sep.i) ELSE Target_parse(sep.i)} |->
         IF t.k = "Failure" THEN t
         ELSE IF t.k = "Error" THEN Ok(i, acc)
         ELSE Target_list(t.i, Append(acc, t.v), named)])])

\* Target::named
Target_named(i) ==
    Bind([src \in {identifier(i)} |->
    IF src.k # "Ok" THEN Error(i)
    ELSE Bind([colon \in {ws_post(char(":", skip_ws(src.i)))} |->
             Bind([t \in {IF colon.k = "Ok" THEN Target_parse(colon.i) ELSE Error(src.i)} |->
         IF t.k = "Failure" THEN t
            ELSE IF t.k = "Ok" THEN Ok(t.i, <<src.v, t.v>>)
            ELSE Ok(src.i, <<src.v, <<"Name", src.v>>>>)])])])

\* the payload of a struct pattern after its opening paren or brace
\* (lines 537-543 and 549-555)
Target_payload(i, close, named) ==
    Bind([empty \in {char(close, i)} |->
    IF empty.k = "Ok" THEN Ok(empty.i, <<>>)
    ELSE Bind([first \in {cut(IF named THEN Target_named(i) ELSE Target_parse(i))} |->
         IF first.k # "Ok" THEN first
         ELSE Bind([l \in {Target_list(first.i, <<first.v>>, named)} |->
              IF l.k # "Ok" THEN l
              ELSE Bind([comma \in {opt_char(",", l.i)} |->
                       Bind([end \in {ws_post(cut(char(close, skip_ws(comma.i))))} |->
                   IF end.k = "Ok" THEN Ok(end.i, l.v) ELSE end])])])])])

\* Target::parse
Target_parse(i) ==
    Bind([lit \in {Target_lit(i)} |->
    IF lit.k = "Ok" THEN lit
    ELSE
    Bind([open \in {opt_char("(", i)} |->
    IF open.is
    THEN Bind([empty \in {opt_char(")", open.i)} |->
         IF empty.is THEN Ok(empty.i, <<"Tuple", <<>>, <<>>>>)
         ELSE Bind([first \in {Target_parse(open.i)} |->
              IF first.k # "Ok" THEN first
              ELSE Bind([unused \in {opt_char(")", first.i)} |->
                   IF unused.is THEN Ok(unused.i, first.v)
                   ELSE Bind([f \in {cut(Target_fold(first.i, <<first.v>>))} |->
                        IF f.k # "Ok" THEN f
                        ELSE Bind([comma \in {opt_char(",", f.i)} |->
                                 Bind([end \in {cut(ws_post(cut(char(")", skip_ws(comma.i)))))} |->
                             IF end.k = "Ok"
                                THEN Ok(end.i, <<"Tuple", <<>>, f.v>>)
                                ELSE end])])])])])])
    ELSE
    Bind([p \in {path(i)} |->
    IF p.k = "Ok"
    THEN Bind([with \in {ws_post(keyword("with", skip_ws(p.i)))} |->
             Bind([i1 \in {IF with.k = "Ok" THEN with.i ELSE p.i} |->
             Bind([paren \in {opt_char("(", i1)} |->
             Bind([brace \in {opt_char("{", paren.i)} |->
         IF paren.is
            THEN Bind([t \in {Target_payload(paren.i, ")", FALSE)} |->
                 IF t.k = "Ok" THEN Ok(t.i, <<"Tuple", p.v, t.v>>) ELSE t])
            ELSE IF brace.is
            THEN Bind([t \in {Target_payload(brace.i, "}", TRUE)} |->
                 IF t.k = "Ok" THEN Ok(t.i, <<"Struct", p.v, t.v>>) ELSE t])
            ELSE Ok(p.i, <<"Path", p.v>>)])])])])
    ELSE
    Bind([n \in {identifier(i)} |->
    IF n.k = "Ok" THEN Ok(n.i, <<"Name", n.v>>) ELSE Error(i)])])])])

----------------------------------------------------------------------------
(* Nodes.  A node is [type, ws, name, items]: ws lists the Ws fields of the *)
(* variant in declaration order; the Vec<Node> bodies are not kept.         *)

Node(type, wss, name, items) ==
    [type |-> type, ws |-> wss, name |-> name, items |-> items]
NoNode == Node("none", <<>>, "", <<>>)

\* a frame of the stack: a compound construct whose body is being parsed
\* (the locals of Node::if, Node::for, ... read so far): ws are the trim
\* markers, items the branches, arms, parameters or raw pieces, extra the
\* else arm of a match.
Frame(kind, phase, wss, name, items) ==
    [kind |-> kind, phase |-> phase, ws |-> wss, name |-> name, items |-> items,
     extra |-> <<>>]

----------------------------------------------------------------------------
(* Leaf constructs.  Each takes the input after the block-start tag. *)

\* Node::call (lines 92-107)
call(i) ==
    Bind([pws \in {opt_Whitespace(i)} |->
        Bind([kw \in {ws_post(keyword("call", skip_ws(pws.i)))} |->
    IF kw.k # "Ok" THEN Error(i)
       ELSE
       Bind([sid \in {ws_post(identifier(skip_ws(kw.i)))} |->
           Bind([sc \in {IF sid.k = "Ok" THEN ws_post(tag("::", skip_ws(sid.i)))
                 ELSE Error(kw.i)} |->
           Bind([i1 \in {IF sc.k = "Ok" THEN sc.i ELSE kw.i} |->
           Bind([scope \in {IF sc.k = "Ok" THEN sid.v ELSE "None"} |->
           Bind([name \in {ws_post(identifier(skip_ws(i1)))} |->
       IF name.k # "Ok" THEN Failure(i1)
          ELSE Bind([args \in {Expr_parse_arguments(name.i)} |->
                   Bind([nws \in {opt_Whitespace(IF args.k = "Ok" THEN args.i ELSE name.i)} |->
               Ok(nws.i, Node("Call", <<Ws(pws.v, nws.v)>>, name.v,
                                 <<scope, IF args.k = "Ok" THEN args.v ELSE <<>>>>))])])])])])])])])])

\* Node::let (lines 109-129)
r_let(i) ==
    Bind([pws \in {opt_Whitespace(i)} |->
        Bind([l \in {ws_post(keyword("let", skip_ws(pws.i)))} |->
        Bind([kw \in {IF l.k = "Ok" THEN l ELSE ws_post(keyword("set", skip_ws(pws.i)))} |->
    IF kw.k # "Ok" THEN Error(i)
       ELSE
       Bind([var \in {cut(ws_post(Target_parse(skip_ws(kw.i))))} |->
       IF var.k # "Ok" THEN var
       ELSE Bind([eq \in {ws_post(char("=", skip_ws(var.i)))} |->
                Bind([val \in {IF eq.k = "Ok" THEN ws_post(Expr_parse(skip_ws(eq.i)))
                       ELSE Error(var.i)} |->
                Bind([i1 \in {IF val.k = "Ok" THEN val.i ELSE var.i} |->
                Bind([nws \in {opt_Whitespace(i1)} |->
            IF val.k = "Ok"
               THEN Ok(nws.i, Node("Let", <<Ws(pws.v, nws.v)>>, "", <<var.v, val.v>>))
               ELSE Ok(nws.i, Node("LetDecl", <<Ws(pws.v, nws.v)>>, "", <<var.v>>))])])])])])])])])

\* Node::extends (lines 261-264): no cut, no trim markers
extends(i) ==
    Bind([kw \in {ws_post(keyword("extends", skip_ws(i)))} |->
    IF kw.k # "Ok" THEN Error(i)
    ELSE Bind([name \in {ws_post(str_lit(skip_ws(kw.i)))} |->
         IF name.k # "Ok" THEN Error(i)
            ELSE Ok(name.i, Node("Extends", <<>>, name.v, <<>>))])])

\* Node::include (lines 266-274)
include(i) ==
    Bind([pws \in {opt_Whitespace(i)} |->
        Bind([kw \in {ws_post(keyword("include", skip_ws(pws.i)))} |->
    IF kw.k # "Ok" THEN Error(i)
       ELSE Bind([name \in {cut(ws_post(str_lit(skip_ws(kw.i))))} |->
            IF name.k # "Ok" THEN name
            ELSE Bind([nws \in {opt_Whitespace(name.i)} |->
                 Ok(nws.i, Node("Include", <<Ws(pws.v, nws.v)>>, name.v, <<>>))])])])])

\* Node::import (lines 303-315)
import(i) ==
    Bind([pws \in {opt_Whitespace(i)} |->
        Bind([kw \in {ws_post(keyword("import", skip_ws(pws.i)))} |->
    IF kw.k # "Ok" THEN Error(i)
       ELSE Bind([name \in {cut(ws_post(str_lit(skip_ws(kw.i))))} |->
            IF name.k # "Ok" THEN name
            ELSE Bind([as \in {cut(ws_post(keyword("as", skip_ws(name.i))))} |->
                 IF as.k # "Ok" THEN as
                 ELSE Bind([scope \in {cut(ws_post(identifier(skip_ws(as.i))))} |->
                      IF scope.k # "Ok" THEN scope
                      ELSE Bind([nws \in {opt_Whitespace(scope.i)} |->
                           Ok(nws.i, Node("Import", <<Ws(pws.v, nws.v)>>,
                                             name.v, <<scope.v>>))])])])])])])

\* loop_control without the is_in_loop test
loop_control_unguarded(kwd, type, i, depth) ==
    Bind([pws \in {opt_Whitespace(i)} |->
    Bind([kw \in {ws_post(keyword(kwd, skip_ws(pws.i)))} |->
    IF kw.k # "Ok" THEN Error(i)
    ELSE Bind([nws \in {opt_Whitespace(kw.i)} |->
         Ok(nws.i, Node(type, <<Ws(pws.v, nws.v)>>, "", <<>>))])])])

\* the tuple shared by Node::break and Node::continue (lines 397-402, 410-415)
loop_control(kwd, type, i, depth) ==
    Bind([pws \in {opt_Whitespace(i)} |->
        Bind([kw \in {ws_post(keyword(kwd, skip_ws(pws.i)))} |->
    IF kw.k # "Ok" THEN Error(i)
       ELSE Bind([nws \in {opt_Whitespace(kw.i)} |->
            IF ~is_in_loop(depth) THEN Failure(i)
               ELSE Ok(nws.i, Node(type, <<Ws(pws.v, nws.v)>>, "", <<>>))])])])

\* Node::break (lines 396-407)
r_break(i, depth) == loop_control("break", "Break", i, depth)

\* Node::continue (lines 409-420)
r_continue(i, depth) == loop_control("continue", "Continue", i, depth)

\* Node::expr (lines 422-434), on the whole input
expr(i, s) ==
    Bind([start \in {tag_expr_start(s, i)} |->
    IF start.k # "Ok" THEN Error(i)
    ELSE Bind([pws \in {opt_Whitespace(start.i)} |->
             Bind([e \in {cut(ws_post(Expr_parse(skip_ws(pws.i))))} |->
         IF e.k # "Ok" THEN e
            ELSE Bind([nws \in {opt_Whitespace(e.i)} |->
                     Bind([end \in {cut(tag_expr_end(s, nws.i))} |->
                 IF end.k # "Ok" THEN end
                    ELSE Ok(end.i, Node("Expr", <<Ws(pws.v, nws.v)>>, "", <<e.v>>))])])])])])

----------------------------------------------------------------------------
(* Literal text and comments, on the whole remaining input *)

RECURSIVE skip_till_start(_, _, _)
\* skip_till(p_start) of line 56: the offset of the first block, comment or
\* expression start at or after offset n, or Len(i)+1 when there is none
\* (anychar fails at the end of input)
skip_till_start(i, s, n) ==
    IF n >= Len(i) THEN Len(i) + 1
    ELSE Bind([j \in {Drop(i, n)} |->
         IF \/ StartsWith(j, s.block_start)
               \/ StartsWith(j, s.comment_start)
               \/ StartsWith(j, s.expr_start)
            THEN n
            ELSE skip_till_start(i, s, n + 1)])

\* content with the whole text as the core of the Lit
content_unsplit(i, s) ==
    IF i = "" THEN Error(i)
    ELSE Bind([n \in {skip_till_start(i, s, 0)} |->
         IF n = 0 THEN Error(i)
         ELSE IF n <= Len(i)
         THEN Ok(Drop(i, n), [type |-> "Lit", lws |-> "", val |-> Take(i, n), rws |-> ""])
         ELSE Ok("", [type |-> "Lit", lws |-> "", val |-> i, rws |-> ""])])

\* Node::content (lines 48-66)
content(i, s) ==
    IF i = "" THEN Error(i)                       \* not(eof)
    ELSE Bind([n \in {skip_till_start(i, s, 0)} |->
         IF n = 0 THEN Error(i)                   \* Some("")
         ELSE IF n <= Len(i) THEN Ok(Drop(i, n), split_ws_parts(Take(i, n)))
         ELSE Ok("", split_ws_parts(i))])           \* None: take everything

\* the number of bytes the comment body steps over a delimiter (lines 444, 448)
DelimSkip == 2

\* One iteration of the loop of Node::comment's body (lines 439-452) at
\* input i and nesting level; r is the result once the loop returns
\* (loop = FALSE).
body_step(i, level, s) ==
    Bind([e \in {Find(i, s.comment_end)} |->
        Bind([st \in {Find(i, s.comment_start)} |->
    IF e > Len(i)
       THEN [i |-> i, level |-> level, loop |-> FALSE, r |-> Error(i)]
       ELSE IF st <= Len(i) /\ st < e
       THEN [i |-> Drop(i, st + DelimSkip), level |-> level + 1, loop |-> TRUE,
             r |-> Error(i)]
       ELSE IF level > 0
       THEN [i |-> Drop(i, e + DelimSkip), level |-> level - 1, loop |-> TRUE,
             r |-> Error(i)]
       ELSE [i |-> i, level |-> level, loop |-> FALSE,
             r |-> Ok(Drop(i, e), Take(i, e))]])])

RECURSIVE body(_, _, _)
\* Node::comment's body (lines 437-453)
body(i, level, s) ==
    Bind([n \in {body_step(i, level, s)} |->
    IF n.loop THEN body(n.i, n.level, s) ELSE n.r])

\* the trailing marker of a comment (lines 464-472)
comment_nws(tail) ==
    IF EndsWith(tail, "-") THEN "Suppress"
    ELSE IF EndsWith(tail, "+") THEN "Preserve"
    ELSE IF EndsWith(tail, "~") THEN "Minimize"
    ELSE "None"

\* Node::comment (lines 436-474)
comment(i, s) ==
    Bind([start \in {tag_comment_start(s, i)} |->
    IF start.k # "Ok" THEN Error(i)
    ELSE Bind([pws \in {opt_Whitespace(start.i)} |->
             Bind([b \in {cut(body(pws.i, 0, s))} |->
         IF b.k # "Ok" THEN b
            ELSE Bind([end \in {cut(tag_comment_end(s, b.i))} |->
                 IF end.k # "Ok" THEN end
                    ELSE Ok(end.i, Node("Comment", <<Ws(pws.v, comment_nws(b.v))>>,
                                        "", <<>>))])])])])

----------------------------------------------------------------------------
(* Compound constructs: the tag that opens one.  Each takes the input      *)
(* after the block-start tag and returns the frame to push.                *)

\* CondTest::parse (lines 724-739)
CondTest_parse(i) ==
    Bind([kw \in {ws_post(keyword("if", skip_ws(i)))} |->
    IF kw.k # "Ok" THEN Error(i)
    ELSE Bind([l \in {ws_post(keyword("let", skip_ws(kw.i)))} |->
             Bind([ls \in {IF l.k = "Ok" THEN l ELSE ws_post(keyword("set", skip_ws(kw.i)))} |->
             Bind([t \in {IF ls.k = "Ok" THEN ws_post(Target_parse(skip_ws(ls.i)))
                  ELSE Error(kw.i)} |->
             Bind([eq \in {IF t.k = "Ok" THEN ws_post(char("=", skip_ws(t.i))) ELSE t} |->
         IF eq.k = "Failure" THEN eq
            ELSE Bind([i1 \in {IF eq.k = "Ok" THEN eq.i ELSE kw.i} |->
                     Bind([target \in {IF eq.k = "Ok" THEN <<"Some", t.v>> ELSE <<"None">>} |->
                     Bind([e \in {cut(ws_post(Expr_parse(skip_ws(i1))))} |->
                 IF e.k # "Ok" THEN e
                    ELSE Ok(e.i, [target |-> target, expr |-> e.v])])])])])])])])])

\* struct Cond (lines 686-691), without its block
Cond(wsp, cond) == [ws |-> wsp, cond |-> cond]
\* struct When (lines 617-622), without its block
When(wsp, target) == [ws |-> wsp, target |-> target]

\* Node::if up to the body (lines 132-137)
if_open(i, s) ==
    Bind([pws1 \in {opt_Whitespace(i)} |->
        Bind([cond \in {CondTest_parse(pws1.i)} |->
    IF cond.k # "Ok" THEN cond
       ELSE Bind([nws1 \in {opt_Whitespace(cond.i)} |->
                Bind([end \in {cut(tag_block_end(s, nws1.i))} |->
            IF end.k # "Ok" THEN end
               ELSE Ok(end.i, Frame("if", "body", <<>>, "",
                                    <<Cond(Ws(pws1.v, nws1.v), <<"Some", cond.v>>)>>))])])])])

\* Node::for up to the body (lines 169, 186-196)
for_open(i, s) ==
    Bind([pws1 \in {opt_Whitespace(i)} |->
        Bind([kw \in {ws_post(keyword("for", skip_ws(pws1.i)))} |->
    IF kw.k # "Ok" THEN Error(i)
       ELSE
       Bind([var \in {cut(ws_post(Target_parse(skip_ws(kw.i))))} |->
       IF var.k # "Ok" THEN var
       ELSE
       Bind([kin \in {cut(ws_post(keyword("in", skip_ws(var.i))))} |->
       IF kin.k # "Ok" THEN kin
       ELSE
       Bind([iter \in {cut(ws_post(Expr_parse(skip_ws(kin.i))))} |->
       IF iter.k # "Ok" THEN iter
       ELSE
       Bind([ifkw \in {ws_post(keyword("if", skip_ws(iter.i)))} |->
           Bind([cond \in {IF ifkw.k = "Ok" THEN cut(ws_post(Expr_parse(skip_ws(ifkw.i))))
                   ELSE Ok(iter.i, <<>>)} |->
       IF cond.k # "Ok" THEN cond
          ELSE Bind([nws1 \in {opt_Whitespace(cond.i)} |->
                   Bind([end \in {cut(tag_block_end(s, nws1.i))} |->
               IF end.k # "Ok" THEN end
                  ELSE Ok(end.i, Frame("for", "body", <<pws1.v, nws1.v>>, "",
                                       <<var.v, iter.v,
                                         IF ifkw.k = "Ok" THEN <<"Some", cond.v>>
                                         ELSE <<"None">>>>))])])])])])])])])])

\* Node::match up to the arms (lines 229-235)
match_open(i, s) ==
    Bind([pws1 \in {opt_Whitespace(i)} |->
        Bind([kw \in {ws_post(keyword("match", skip_ws(pws1.i)))} |->
    IF kw.k # "Ok" THEN Error(i)
       ELSE Bind([e \in {cut(ws_post(Expr_parse(skip_ws(kw.i))))} |->
            IF e.k # "Ok" THEN e
            ELSE Bind([nws1 \in {opt_Whitespace(e.i)} |->
                     Bind([end \in {cut(tag_block_end(s, nws1.i))} |->
                 IF end.k # "Ok" THEN end
                    ELSE Ok(end.i, Frame("match", "head", <<Ws(pws1.v, nws1.v)>>,
                                         "", <<>>))])])])])])

\* Node::block up to the body (lines 277-284)
block_open(i, s) ==
    Bind([pws1 \in {opt_Whitespace(i)} |->
        Bind([kw \in {ws_post(keyword("block", skip_ws(pws1.i)))} |->
    IF kw.k # "Ok" THEN Error(i)
       ELSE Bind([name \in {cut(ws_post(identifier(skip_ws(kw.i))))} |->
            IF name.k # "Ok" THEN name
            ELSE Bind([nws1 \in {opt_Whitespace(name.i)} |->
                     Bind([end \in {cut(tag_block_end(s, nws1.i))} |->
                 IF end.k # "Ok" THEN end
                    ELSE Ok(end.i, Frame("block", "body", <<Ws(pws1.v, nws1.v)>>,
                                         name.v, <<>>))])])])])])

RECURSIVE params_tail(_, _)
\* separated_list0(char(','), ws(identifier)) after its first element
params_tail(i, acc) ==
    Bind([sep \in {char(",", i)} |->
    IF sep.k # "Ok" THEN Ok(i, acc)
    ELSE Bind([id \in {ws_post(identifier(skip_ws(sep.i)))} |->
         IF id.k # "Ok" THEN Ok(i, acc) ELSE params_tail(id.i, Append(acc, id.v))])])

\* parameters of Node::macro (lines 318-324)
parameters(i) ==
    Bind([open \in {ws_post(char("(", skip_ws(i)))} |->
    IF open.k # "Ok" THEN Error(i)
    ELSE Bind([id \in {ws_post(identifier(skip_ws(open.i)))} |->
             Bind([l \in {IF id.k = "Ok" THEN params_tail(id.i, <<id.v>>) ELSE Ok(open.i, <<>>)} |->
             Bind([close \in {ws_post(char(")", skip_ws(l.i)))} |->
         IF close.k = "Ok" THEN Ok(close.i, l.v) ELSE Error(i)])])])])

\* Node::macro up to the body (lines 326-336)
macro_open(i, s) ==
    Bind([pws1 \in {opt_Whitespace(i)} |->
        Bind([kw \in {ws_post(keyword("macro", skip_ws(pws1.i)))} |->
    IF kw.k # "Ok" THEN Error(i)
       ELSE Bind([name \in {cut(ws_post(identifier(skip_ws(kw.i))))} |->
            IF name.k # "Ok" THEN name
            ELSE Bind([ps \in {ws_post(parameters(skip_ws(name.i)))} |->
                     Bind([i1 \in {IF ps.k = "Ok" THEN ps.i ELSE name.i} |->
                     Bind([nws1 \in {opt_Whitespace(i1)} |->
                     Bind([end \in {cut(tag_block_end(s, nws1.i))} |->
                 IF end.k # "Ok" THEN end
                    ELSE Ok(end.i, Frame("macro", "body", <<Ws(pws1.v, nws1.v)>>,
                                         name.v,
                                         IF ps.k = "Ok" THEN ps.v ELSE <<>>))])])])])])])])

\* Node::raw up to the raw text (lines 376-381)
raw_open(i, s) ==
    Bind([pws1 \in {opt_Whitespace(i)} |->
        Bind([kw \in {ws_post(keyword("raw", skip_ws(pws1.i)))} |->
    IF kw.k # "Ok" THEN Error(i)
       ELSE Bind([nws1 \in {opt_Whitespace(kw.i)} |->
                Bind([end \in {cut(tag_block_end(s, nws1.i))} |->
            IF end.k # "Ok" THEN end
               ELSE Ok(end.i, Frame("raw", "raw", <<Ws(pws1.v, nws1.v)>>, "", <<>>))])])])])

----------------------------------------------------------------------------
(* Compound constructs: what follows a body.  When the Node::many of a     *)
(* body returns, the construct reads on at the tag that stopped it.  Each  *)
(* operator takes the input at that tag and returns [c, r]: the branch     *)
(* taken and its result.                                                   *)

Branch(c, r) == [c |-> c, r |-> r]

\* the cut(tag_block_end) of Node::parse (line 86) after a construct
close(r, s) ==
    IF r.k # "Ok" THEN r
    ELSE Bind([e \in {cut(tag_block_end(s, r.i))} |->
         IF e.k = "Ok" THEN Ok(e.i, r.v) ELSE e])

\* Cond::parse up to the block (lines 695-702)
Cond_parse(i, s) ==
    Bind([start \in {tag_block_start(s, i)} |->
    IF start.k # "Ok" THEN Error(i)
    ELSE
    Bind([pws \in {opt_Whitespace(start.i)} |->
        Bind([kw \in {ws_post(keyword("else", skip_ws(pws.i)))} |->
    IF kw.k # "Ok" THEN Error(i)
       ELSE Bind([cond \in {cut(opt(CondTest_parse(kw.i), kw.i))} |->
            IF cond.k # "Ok" THEN cond
            ELSE Bind([nws \in {opt_Whitespace(cond.i)} |->
                     Bind([end \in {cut(tag_block_end(s, nws.i))} |->
                 IF end.k # "Ok" THEN end
                    ELSE Ok(end.i, Cond(Ws(pws.v, nws.v),
                                        IF CondTest_parse(kw.i).k = "Ok"
                                        THEN <<"Some", cond.v>> ELSE <<"None">>))])])])])])])

\* the closing tag of a construct: cut(tuple((tag_block_start,
\* opt(Whitespace::parse), ws(keyword(kwd)), opt(Whitespace::parse))))
\* (lines 141-146, 241-246) and then line 86
end_tag(kwd, i, s, lead) ==
    Bind([start \in {cut(tag_block_start(s, IF lead THEN skip_ws(i) ELSE i))} |->
    IF start.k # "Ok" THEN start
    ELSE Bind([pws \in {opt_Whitespace(IF lead THEN skip_ws(start.i) ELSE start.i)} |->
             Bind([kw \in {cut(ws_post(keyword(kwd, skip_ws(pws.i))))} |->
         IF kw.k # "Ok" THEN kw
            ELSE Bind([nws \in {opt_Whitespace(kw.i)} |->
                 close(Ok(nws.i, Ws(pws.v, nws.v)), s)])])])])

\* Node::if after a body (lines 140-146): more branches, then endif
if_tail(i, s) ==
    Bind([c \in {Cond_parse(i, s)} |->
    IF c.k # "Error" THEN Branch("Cond", c)
       ELSE Branch("endif", end_tag("endif", i, s, FALSE))])

\* Node::for after the loop body (lines 170-185, 199-205)
for_tail(i, s) ==
    Bind([start \in {cut(tag_block_start(s, i))} |->
    IF start.k # "Ok" THEN Branch("endfor", start)
    ELSE
    Bind([pws2 \in {opt_Whitespace(start.i)} |->
        Bind([else \in {ws_post(keyword("else", skip_ws(pws2.i)))} |->
    IF else.k = "Ok"
       THEN Bind([pws \in {opt_Whitespace(else.i)} |->
                Bind([end \in {cut(tag_block_end(s, pws.i))} |->
            Branch("for_else",
                      IF end.k = "Ok" THEN Ok(end.i, <<pws2.v, pws.v>>) ELSE end)])])
       ELSE Bind([kw \in {cut(ws_post(keyword("endfor", skip_ws(pws2.i))))} |->
            IF kw.k # "Ok" THEN Branch("endfor", kw)
            ELSE Bind([nws2 \in {opt_Whitespace(kw.i)} |->
                 Branch("endfor",
                           close(Ok(nws2.i, <<pws2.v, "None", "None", nws2.v>>), s))])])])])])

\* Node::for after the else body (lines 178-180, 203-204)
for_else_tail(i, s) ==
    Bind([start \in {cut(tag_block_start(s, i))} |->
    IF start.k # "Ok" THEN Branch("endfor", start)
    ELSE Bind([nws \in {opt_Whitespace(start.i)} |->
             Bind([kw \in {cut(ws_post(keyword("endfor", skip_ws(nws.i))))} |->
         IF kw.k # "Ok" THEN Branch("endfor", kw)
            ELSE Bind([nws2 \in {opt_Whitespace(kw.i)} |->
                 Branch("endfor", close(Ok(nws2.i, <<nws.v, nws2.v>>), s))])])])])

\* When::when up to the block (lines 649-656)
When_when(i, s) ==
    Bind([start \in {tag_block_start(s, i)} |->
    IF start.k # "Ok" THEN Error(i)
    ELSE
    Bind([pws \in {opt_Whitespace(start.i)} |->
        Bind([kw \in {ws_post(keyword("when", skip_ws(pws.i)))} |->
    IF kw.k # "Ok" THEN Error(i)
       ELSE Bind([target \in {cut(ws_post(Target_parse(skip_ws(kw.i))))} |->
            IF target.k # "Ok" THEN target
            ELSE Bind([nws \in {opt_Whitespace(target.i)} |->
                     Bind([end \in {cut(tag_block_end(s, nws.i))} |->
                 IF end.k # "Ok" THEN end
                    ELSE Ok(end.i, When(Ws(pws.v, nws.v), target.v))])])])])])])

\* When::match up to the block (lines 626-632): the else arm
When_match(i, s) ==
    Bind([start \in {tag_block_start(s, i)} |->
    IF start.k # "Ok" THEN Error(i)
    ELSE
    Bind([pws \in {opt_Whitespace(start.i)} |->
        Bind([kw \in {ws_post(keyword("else", skip_ws(pws.i)))} |->
    IF kw.k # "Ok" THEN Error(i)
       ELSE Bind([nws \in {opt_Whitespace(kw.i)} |->
                Bind([end \in {cut(tag_block_end(s, nws.i))} |->
            IF end.k # "Ok" THEN end
               ELSE Ok(end.i, When(Ws(pws.v, nws.v), <<"Name", "_">>))])])])])])

\* Node::match before its first arm (lines 237-238): whitespace and
\* comments are skipped, then an arm is required
match_head(i, s) ==
    Bind([j \in {skip_ws(i)} |->
        Bind([c \in {comment(j, s)} |->
        Bind([w \in {cut(When_when(j, s))} |->
    IF i # "" /\ j = "" THEN Branch("match_skip", Ok(j, <<>>))
       ELSE IF c.k # "Error" THEN Branch("match_skip", c)
       ELSE Branch("when", w)])])])

\* Node::match after the body of a when arm (lines 238-246)
match_tail(i, s) ==
    Bind([w \in {When_when(i, s)} |->
        Bind([e \in {When_match(i, s)} |->
    IF w.k # "Error" THEN Branch("when", w)
       ELSE IF e.k # "Error" THEN Branch("match_else", e)
       ELSE Branch("endmatch", end_tag("endmatch", i, s, TRUE))])])

\* Node::match after the body of the else arm (lines 241-246)
match_else_tail(i, s) == Branch("endmatch", end_tag("endmatch", i, s, TRUE))

\* named_end with any identifier as the closing name
named_end_any_name(kwd, name, i, s) ==
    Bind([start \in {cut(tag_block_start(s, i))} |->
    IF start.k # "Ok" THEN start
    ELSE Bind([pws2 \in {opt_Whitespace(start.i)} |->
         Bind([kw \in {cut(ws_post(keyword(kwd, skip_ws(pws2.i))))} |->
         IF kw.k # "Ok" THEN kw
         ELSE Bind([nm \in {ws_post(identifier(skip_ws(kw.i)))} |->
              Bind([nws2 \in {opt_Whitespace(IF nm.k = "Ok" THEN nm.i ELSE kw.i)} |->
              Ok(nws2.i, Ws(pws2.v, nws2.v))])])])])])

\* the closing tag of a block or a macro (lines 286-295, 338-347): the
\* optional closing name is keyword(name), the name of the opening tag
named_end(kwd, name, i, s) ==
    Bind([start \in {cut(tag_block_start(s, i))} |->
    IF start.k # "Ok" THEN start
    ELSE Bind([pws2 \in {opt_Whitespace(start.i)} |->
             Bind([kw \in {cut(ws_post(keyword(kwd, skip_ws(pws2.i))))} |->
         IF kw.k # "Ok" THEN kw
            ELSE Bind([nm \in {ws_post(keyword(name, skip_ws(kw.i)))} |->
                     Bind([nws2 \in {opt_Whitespace(IF nm.k = "Ok" THEN nm.i ELSE kw.i)} |->
                 Ok(nws2.i, Ws(pws2.v, nws2.v))])])])])])

\* Node::block after its body (lines 286-300)
block_tail(name, i, s) == Branch("endblock", close(named_end("endblock", name, i, s), s))

\* Node::macro after its body (lines 338-365): the assertion of line 349
\* panics once the closing tag has been read
macro_tail(name, i, s) ==
    Bind([e \in {named_end("endmacro", name, i, s)} |->
    IF e.k = "Ok" /\ name = "super"
       THEN Branch("endmacro", [e EXCEPT !.k = "Panic"])
       ELSE Branch("endmacro", close(e, s))])

\* endraw without the peek of the block end
endraw_no_peek(i, s) ==
    Bind([start \in {tag_block_start(s, i)} |->
    IF start.k # "Ok" THEN Error(i)
    ELSE Bind([pws2 \in {opt_Whitespace(start.i)} |->
             Bind([kw \in {ws_post(keyword("endraw", skip_ws(pws2.i)))} |->
         IF kw.k # "Ok" THEN Error(i)
            ELSE Bind([nws2 \in {opt_Whitespace(kw.i)} |->
                 Ok(nws2.i, Ws(pws2.v, nws2.v))])])])])

\* endraw of Node::raw (lines 368-374)
endraw(i, s) ==
    Bind([start \in {tag_block_start(s, i)} |->
    IF start.k # "Ok" THEN Error(i)
    ELSE Bind([pws2 \in {opt_Whitespace(start.i)} |->
             Bind([kw \in {ws_post(keyword("endraw", skip_ws(pws2.i)))} |->
         IF kw.k # "Ok" THEN Error(i)
            ELSE Bind([nws2 \in {opt_Whitespace(kw.i)} |->
                 IF tag_block_end(s, nws2.i).k = "Ok"      \* peek
                    THEN Ok(nws2.i, Ws(pws2.v, nws2.v))
                    ELSE Error(i)])])])])

RECURSIVE skip_till_endraw(_, _, _)
\* skip_till(endraw) (line 382): the first offset at which endraw matches
skip_till_endraw(i, s, n) ==
    IF n >= Len(i) THEN Len(i) + 1
    ELSE IF endraw(Drop(i, n), s).k = "Ok" THEN n
    ELSE skip_till_endraw(i, s, n + 1)

\* Node::raw over the next piece of input (lines 382-394): v is
\* <<the text stepped over, the Ws of the endraw tag>>
raw_tail(i, s) ==
    Bind([n \in {skip_till_endraw(i, s, 0)} |->
    IF i = "" THEN Branch("endraw", Failure(i))
    ELSE IF n > Len(i) THEN Branch("raw_text", Ok("", <<i, Ws("None", "None")>>))
    ELSE Bind([e \in {endraw(Drop(i, n), s)} |->
         Branch("endraw", close(Ok(e.i, <<Take(i, n), e.v>>), s))])])

----------------------------------------------------------------------------
(* The dispatchers *)

\* alt: the first alternative that does not fail recoverably
RECURSIVE alt(_, _)
alt(branches, i) ==
    IF branches = <<>> THEN Branch("none", Error(i))
    ELSE IF Head(branches).r.k # "Error" THEN Head(branches)
    ELSE alt(Tail(branches), i)

Compound == {"if", "for", "match", "block", "macro", "raw"}

\* Node::parse (lines 68-90).  For a compound construct the result is the
\* frame its opening tag pushes; the closing cut(tag_block_end) of line 86
\* is then read by the construct's closing tag.
Node_parse(i, s, depth) ==
    Bind([start \in {tag_block_start(s, i)} |->
    IF start.k # "Ok" THEN Branch("none", Error(i))
    ELSE Bind([j \in {start.i} |->
             Bind([a \in {alt(<<Branch("call", call(j)),
                        Branch("let", r_let(j)),
                        Branch("if", if_open(j, s)),
                        Branch("for", for_open(j, s)),
                        Branch("match", match_open(j, s)),
                        Branch("extends", extends(j)),
                        Branch("include", include(j)),
                        Branch("import", import(j)),
                        Branch("block", block_open(j, s)),
                        Branch("macro", macro_open(j, s)),
                        Branch("raw", raw_open(j, s)),
                        Branch("break", r_break(j, depth)),
                        Branch("continue", r_continue(j, depth))>>, i)} |->
         IF a.c \in Compound THEN a ELSE Branch(a.c, close(a.r, s))])])])

\* one iteration of the many0 of Node::many (lines 39-46)
many_alt(i, s, depth) ==
    alt(<<Branch("content", content(i, s)),
          Branch("comment", comment(i, s)),
          Branch("expr", expr(i, s)),
          Node_parse(i, s, depth)>>, i)

----------------------------------------------------------------------------
(* The template is read one piece at a time: a run of literal text or one  *)
(* tag.  Every decision of the grammar is taken inside one tag (each alt   *)
(* and opt backtracks to the start of the tag at most), so reading a       *)
(* template is a sequence of steps, one per piece; "" is the end of input. *)

TextChunks == {"x", " x "}
CommentChunks == {"{#- c ~#}"}
ExprChunks == {"{{- e +}}", "{{ }}"}
CallChunks == {"{%- call s::m(e) -%}", "{% call %}"}
LetChunks == {"{%~ let a = e +%}", "{% let %}"}
IfChunks == {"{%- if e +%}", "{% if %}"}
ElseChunks == {"{% else %}", "{%~ else if let a = e -%}", "{% else if %}"}
EndifChunks == {"{%+ endif ~%}"}
ForChunks == {"{% for a in e %}", "{%- for a in e if c ~%}", "{% for a %}"}
EndforChunks == {"{%~ endfor -%}"}
MatchChunks == {"{%- match e +%}", "{% match %}"}
WhenChunks == {"{% when a %}", "{%- when b ~%}", "{% when %}"}
EndmatchChunks == {"{%+ endmatch -%}"}
ExtendsChunks == {"{% extends \"t\" %}", "{%- extends \"t\" %}",
                  "{% extends \"t\" -%}", "{% extends t %}"}
IncludeChunks == {"{%- include \"t\" ~%}", "{% include t %}"}
ImportChunks == {"{%+ import \"t\" as s -%}", "{% import \"t\" %}"}
BlockChunks == {"{%- block b +%}", "{% block %}"}
EndblockChunks == {"{% endblock %}", "{%~ endblock b -%}", "{% endblock o %}"}
MacroChunks == {"{%- macro m(a) ~%}", "{% macro super() %}", "{% macro %}"}
EndmacroChunks == {"{%+ endmacro m -%}", "{% endmacro o %}"}
RawChunks == {"{%- raw +%}", "{% raw x %}"}
EndrawChunks == {"{%~ endraw -%}", "{% endraw x %}"}
LoopChunks == {"{%- break +%}", "{% continue %}"}
OtherChunks == {"{% foo %}", ""}

Chunks ==
    TextChunks \cup CommentChunks \cup ExprChunks \cup CallChunks \cup LetChunks
    \cup IfChunks \cup ElseChunks \cup EndifChunks \cup ForChunks
    \cup EndforChunks \cup MatchChunks \cup WhenChunks \cup EndmatchChunks
    \cup ExtendsChunks \cup IncludeChunks \cup ImportChunks \cup BlockChunks
    \cup EndblockChunks \cup MacroChunks \cup EndmacroChunks \cup RawChunks
    \cup EndrawChunks \cup LoopChunks \cup OtherChunks

\* what follows the body of the frame with this kind, phase and name
after_body(key, i, s) ==
    CASE key[1] = "if" -> if_tail(i, s)
      [] key[1] = "for" /\ key[2] = "body" -> for_tail(i, s)
      [] key[1] = "for" /\ key[2] = "else" -> for_else_tail(i, s)
      [] key[1] = "match" /\ key[2] = "head" -> match_head(i, s)
      [] key[1] = "match" /\ key[2] = "when" -> match_tail(i, s)
      [] key[1] = "match" /\ key[2] = "else" -> match_else_tail(i, s)
      [] key[1] = "block" -> block_tail(key[3], i, s)
      [] key[1] = "macro" -> macro_tail(key[3], i, s)
      [] key[1] = "raw" -> raw_tail(i, s)

Keys ==
    {<<"if", "body", "">>, <<"for", "body", "">>, <<"for", "else", "">>,
     <<"match", "head", "">>, <<"match", "when", "">>, <<"match", "else", "">>,
     <<"block", "body", "b">>, <<"macro", "body", "m">>,
     <<"macro", "body", "super">>, <<"raw", "raw", "">>}

\* the grammar on every piece, computed once
ManyTab == [c \in Chunks |-> [d \in 0..MaxDepth |-> many_alt(c, DefaultSyntax, d)]]
TailTab == [c \in Chunks |-> [key \in Keys |-> after_body(key, c, DefaultSyntax)]]

Top == stack[Len(stack)]
Pop == SubSeq(stack, 1, Len(stack) - 1)
KeyOf(f) == <<f.kind, f.phase, f.name>>
\* frames in which Node::many is not what reads the next piece
NoMany(f) == f.kind = "raw" \/ (f.kind = "match" /\ f.phase = "head")

\* What the grammar does with piece c in the current state: the branch
\* taken, its result, and whether the body of the top frame returned.
Outcome(c) ==
    Bind([m \in {ManyTab[c][loop_depth]} |->
    IF stack = <<>>
    THEN IF m.r.k = "Error"
         THEN [c |-> "end", r |-> Ok(c, <<>>), ret |-> TRUE]
         ELSE [c |-> m.c, r |-> m.r, ret |-> FALSE]
    ELSE IF ~NoMany(Top) /\ m.r.k # "Error"
         THEN [c |-> m.c, r |-> m.r, ret |-> FALSE]
         ELSE Bind([t \in {TailTab[c][KeyOf(Top)]} |->
              [c |-> t.c, r |-> t.r, ret |-> ~NoMany(Top)]])])

IsText(c) == c \in TextChunks

\* piece c can be the next piece of the template
Feed(c) ==
    /\ status = "run"
    /\ ~(IsText(chunk) /\ IsText(c))     \* adjacent text is one run of text

\* for_content_return with leave_loop only after a successful body
for_content_return_ok_only(depth, k) ==
    IF k = "Ok" THEN leave_loop(depth) ELSE depth

\* the body of Node::for's content (lines 162-167) has returned with result
\* kind k: leave_loop runs whatever the result
for_content_return(depth, k) == leave_loop(depth)

----------------------------------------------------------------------------
(* Node::many, one step per piece of the template *)

IdleComment ==
    /\ csyntax = DefaultSyntax /\ cin = <<>> /\ ci = "" /\ clevel = 0
    /\ cpc = "idle" /\ cpws = "None" /\ ctail = "" /\ cres = "none"
    /\ cnode = NoNode
IdleLit == lin = "" /\ li = "" /\ lres = "idle" /\ lnodes = <<>>
IdleRaw ==
    /\ rin = <<>> /\ ri = "" /\ rstart = "" /\ rws1 = Ws("None", "None")
    /\ rpc = "idle" /\ rres = "none" /\ rnode = NoNode
IdleTarget == tpats = <<>> /\ tpc = "idle" /\ tres = Error("") /\ tlet = Error("")
IdleMain ==
    /\ loop_depth = 0 /\ stack = <<>> /\ status = "idle" /\ chunk = ""
    /\ node = NoNode

Init ==
    /\ loop_depth = 0
    /\ stack = <<>>
    /\ status = "run"
    /\ chunk = ""
    /\ node = NoNode
    /\ IdleComment
    /\ IdleLit
    /\ IdleRaw
    /\ IdleTarget

\* a step that completes a leaf node
Leaf(c, o, kind) ==
    /\ o.c = kind
    /\ o.r.k = "Ok"
    /\ chunk' = c
    /\ node' = o.r.v
    /\ UNCHANGED <<loop_depth, stack, status, commentVars, litVars, rawVars, targetVars>>

\* a step that reads the opening tag of a compound construct and enters
\* its body
Open(c, o, kind) ==
    /\ Len(stack) < MaxDepth
    /\ o.c = kind
    /\ o.r.k = "Ok"
    /\ chunk' = c
    /\ node' = NoNode
    /\ stack' = Append(stack, o.r.v)
    /\ UNCHANGED <<status, commentVars, litVars, rawVars, targetVars>>

\* a step that reads a tag after a body of the top frame
After(c, o, kind, branch) ==
    /\ stack # <<>>
    /\ Top.kind = kind
    /\ o.c = branch
    /\ o.r.k = "Ok"
    /\ chunk' = c
    /\ UNCHANGED <<status, commentVars, litVars, rawVars, targetVars>>

Replace(f) == [stack EXCEPT ![Len(stack)] = f]

do_content == \E c \in Chunks : Feed(c) /\ \E o \in {Outcome(c)} : Leaf(c, o, "content")
do_comment == \E c \in Chunks : Feed(c) /\ \E o \in {Outcome(c)} : Leaf(c, o, "comment")
do_expr == \E c \in Chunks : Feed(c) /\ \E o \in {Outcome(c)} : Leaf(c, o, "expr")
do_call == \E c \in Chunks : Feed(c) /\ \E o \in {Outcome(c)} : Leaf(c, o, "call")
do_let == \E c \in Chunks : Feed(c) /\ \E o \in {Outcome(c)} : Leaf(c, o, "let")
do_extends == \E c \in Chunks : Feed(c) /\ \E o \in {Outcome(c)} : Leaf(c, o, "extends")
do_include == \E c \in Chunks : Feed(c) /\ \E o \in {Outcome(c)} : Leaf(c, o, "include")
do_import == \E c \in Chunks : Feed(c) /\ \E o \in {Outcome(c)} : Leaf(c, o, "import")
do_break == \E c \in Chunks : Feed(c) /\ \E o \in {Outcome(c)} : Leaf(c, o, "break")
do_continue == \E c \in Chunks : Feed(c) /\ \E o \in {Outcome(c)} : Leaf(c, o, "continue")

do_if == \E c \in Chunks : Feed(c) /\ \E o \in {Outcome(c)} : Open(c, o, "if") /\ UNCHANGED loop_depth
do_match == \E c \in Chunks : Feed(c) /\ \E o \in {Outcome(c)} : Open(c, o, "match") /\ UNCHANGED loop_depth
do_block == \E c \in Chunks : Feed(c) /\ \E o \in {Outcome(c)} : Open(c, o, "block") /\ UNCHANGED loop_depth
do_macro == \E c \in Chunks : Feed(c) /\ \E o \in {Outcome(c)} : Open(c, o, "macro") /\ UNCHANGED loop_depth
do_raw == \E c \in Chunks : Feed(c) /\ \E o \in {Outcome(c)} : Open(c, o, "raw") /\ UNCHANGED loop_depth

\* Node::for: the body is parsed between enter_loop and leave_loop
do_for ==
    \E c \in Chunks : Feed(c) /\ \E o \in {Outcome(c)} :
        /\ Open(c, o, "for")
        /\ loop_depth' = enter_loop(loop_depth)

\* Node::if: one more branch (line 140)
do_else_branch ==
    \E c \in Chunks : Feed(c) /\ \E o \in {Outcome(c)} :
        /\ After(c, o, "if", "Cond")
        /\ Len(Top.items) < MaxBranches
        /\ stack' = Replace([Top EXCEPT !.items = Append(@, o.r.v)])
        /\ node' = NoNode
        /\ UNCHANGED loop_depth

\* Node::if: endif (lines 141-158)
do_endif ==
    \E c \in Chunks : Feed(c) /\ \E o \in {Outcome(c)} :
        /\ After(c, o, "if", "endif")
        /\ stack' = Pop
        /\ node' = Node("Cond", <<o.r.v>>, "", Top.items)
        /\ UNCHANGED loop_depth

\* Node::for: the else block (lines 170-185)
do_for_else ==
    \E c \in Chunks : Feed(c) /\ \E o \in {Outcome(c)} :
        /\ After(c, o, "for", "for_else")
        /\ Top.phase = "body"
        /\ loop_depth' = for_content_return(loop_depth, "Ok")
        /\ stack' = Replace([Top EXCEPT !.phase = "else",
                                        !.ws = @ \o o.r.v])
        /\ node' = NoNode

\* the Ws fields of the Loop (lines 210-224) from the markers read in order
\* pws1, nws1, pws2, nws3, pws3, nws2
Loop_ws(m) == <<Ws(m[1], m[2]), Ws(m[3], m[4]), Ws(m[5], m[6])>>

\* Node::for: endfor (lines 199-225)
do_endfor ==
    \E c \in Chunks : Feed(c) /\ \E o \in {Outcome(c)} :
        /\ After(c, o, "for", "endfor")
        /\ loop_depth' = IF Top.phase = "body"
                         THEN for_content_return(loop_depth, "Ok")
                         ELSE loop_depth
        /\ stack' = Pop
        /\ node' = Node("Loop", Loop_ws(Top.ws \o o.r.v), "", Top.items)

\* Node::match: whitespace and comments before the first arm (line 237)
do_match_skip ==
    \E c \in Chunks : Feed(c) /\ \E o \in {Outcome(c)} :
        /\ After(c, o, "match", "match_skip")
        /\ node' = NoNode
        /\ UNCHANGED <<stack, loop_depth>>

\* Node::match: a when arm (line 238)
do_when ==
    \E c \in Chunks : Feed(c) /\ \E o \in {Outcome(c)} :
        /\ After(c, o, "match", "when")
        /\ Len(Top.items) < MaxArms
        /\ stack' = Replace([Top EXCEPT !.phase = "when",
                                        !.items = Append(@, o.r.v)])
        /\ node' = NoNode
        /\ UNCHANGED loop_depth

\* Node::match: the else arm (line 240)
do_match_else ==
    \E c \in Chunks : Feed(c) /\ \E o \in {Outcome(c)} :
        /\ After(c, o, "match", "match_else")
        /\ stack' = Replace([Top EXCEPT !.phase = "else",
                                        !.extra = <<o.r.v>>])
        /\ node' = NoNode
        /\ UNCHANGED loop_depth

\* match_arms with the else arm put first
match_arms_else_first(arms, else_arm) ==
    IF else_arm # <<>> THEN <<else_arm[1]>> \o arms ELSE arms

\* the arm list of the Match (lines 253-256): else_arm is <<>> or <<arm>>
match_arms(arms, else_arm) ==
    IF else_arm # <<>> THEN Append(arms, else_arm[1]) ELSE arms

\* Node::match: endmatch (lines 241-258)
do_endmatch ==
    \E c \in Chunks : Feed(c) /\ \E o \in {Outcome(c)} :
        /\ After(c, o, "match", "endmatch")
        /\ stack' = Pop
        /\ node' = Node("Match", <<Top.ws[1], o.r.v>>, "",
                        match_arms(Top.items, Top.extra))
        /\ UNCHANGED loop_depth

\* Node::block: endblock (lines 286-300)
do_endblock ==
    \E c \in Chunks : Feed(c) /\ \E o \in {Outcome(c)} :
        /\ After(c, o, "block", "endblock")
        /\ stack' = Pop
        /\ node' = Node("BlockDef", <<Top.ws[1], o.r.v>>, Top.name, <<>>)
        /\ UNCHANGED loop_depth

\* Node::macro: endmacro (lines 338-365)
do_endmacro ==
    \E c \in Chunks : Feed(c) /\ \E o \in {Outcome(c)} :
        /\ After(c, o, "macro", "endmacro")
        /\ stack' = Pop
        /\ node' = Node("Macro", <<Top.ws[1], o.r.v>>, Top.name, Top.items)
        /\ UNCHANGED loop_depth

\* Node::macro: assert_ne!(name, "super") (line 349) panics
do_macro_panic ==
    \E c \in Chunks : Feed(c) /\ \E o \in {Outcome(c)} :
        /\ stack # <<>>
        /\ o.r.k = "Panic"
        /\ chunk' = c
        /\ status' = "panic"
        /\ node' = NoNode
        /\ UNCHANGED <<stack, loop_depth, commentVars, litVars, rawVars, targetVars>>

RECURSIVE Concat(_)
Concat(ss) == IF ss = <<>> THEN "" ELSE Head(ss) \o Concat(Tail(ss))

\* Node::raw: skip_till(endraw) steps over a piece that is no endraw tag
do_raw_text ==
    \E c \in Chunks : Feed(c) /\ \E o \in {Outcome(c)} :
        /\ After(c, o, "raw", "raw_text")
        /\ Len(Concat(Top.items)) + Len(o.r.v[1]) <= MaxRawLen
        /\ stack' = Replace([Top EXCEPT !.items = Append(@, o.r.v[1])])
        /\ node' = NoNode
        /\ UNCHANGED loop_depth

\* the Raw node (lines 386-393) from the text stepped over
Raw_node(ws1, contents, ws2) ==
    Bind([l \in {split_ws_parts(contents)} |->
    Node("Raw", <<ws1, ws2>>, "", <<l.lws, l.val, l.rws>>)])

\* Node::raw: the endraw tag (lines 382-394)
do_endraw ==
    \E c \in Chunks : Feed(c) /\ \E o \in {Outcome(c)} :
        /\ After(c, o, "raw", "endraw")
        /\ stack' = Pop
        /\ node' = Raw_node(Top.ws[1],
                            Concat(Append(Top.items, o.r.v[1])),
                            o.r.v[2])
        /\ UNCHANGED loop_depth

\* the outermost Node::many returns Ok: no alternative matches the next
\* piece (many0 stops at a recoverable error) or the input has ended
do_many_end ==
    \E c \in Chunks : Feed(c) /\ \E o \in {Outcome(c)} :
        /\ o.c = "end"
        /\ chunk' = c
        /\ status' = "done"
        /\ node' = NoNode
        /\ UNCHANGED <<stack, loop_depth, commentVars, litVars, rawVars, targetVars>>

\* the loop counter after a fatal error has left the open constructs,
\* innermost first; `returned` tells that the innermost body had returned
RECURSIVE unwind(_, _, _)
unwind(frames, depth, returned) ==
    IF frames = <<>> THEN depth
    ELSE Bind([f \in {frames[Len(frames)]} |->
             Bind([d \in {IF f.kind = "for" /\ f.phase = "body"
                  THEN for_content_return(depth,
                                          IF returned THEN "Ok" ELSE "Failure")
                  ELSE depth} |->
         unwind(SubSeq(frames, 1, Len(frames) - 1), d, FALSE)])])

\* the constructs a fatal error leaves, outermost first
Abandoned(frames) == [j \in 1..Len(frames) |-> <<frames[j].kind, frames[j].phase>>]

\* a fatal error (nom::Err::Failure) is raised at the next piece and
\* every open construct returns it
do_failure ==
    \E c \in Chunks : Feed(c) /\ \E o \in {Outcome(c)} :
        /\ o.r.k = "Failure"
        /\ chunk' = c
        /\ status' = "failed"
        /\ node' = Node("Failure", <<>>, "", Abandoned(stack))
        /\ stack' = <<>>
        /\ loop_depth' = unwind(stack, loop_depth, o.ret)
        /\ UNCHANGED <<commentVars, litVars, rawVars, targetVars>>

Next ==
    \/ do_content \/ do_comment \/ do_expr \/ do_call \/ do_let
    \/ do_extends \/ do_include \/ do_import \/ do_break \/ do_continue
    \/ do_if \/ do_for \/ do_match \/ do_block \/ do_macro \/ do_raw
    \/ do_else_branch \/ do_endif \/ do_for_else \/ do_endfor
    \/ do_match_skip \/ do_when \/ do_match_else \/ do_endmatch
    \/ do_endblock \/ do_endmacro \/ do_macro_panic
    \/ do_raw_text \/ do_endraw
    \/ do_many_end \/ do_failure

Spec == Init /\ [][Next]_vars

----------------------------------------------------------------------------
(* Properties of Spec *)

\* Node::many is what reads the next piece
AtMany == stack = <<>> \/ ~NoMany(Top)

\* the next piece is textually inside the body of a `for`
InForBody ==
    \E j \in DOMAIN stack : stack[j].kind = "for" /\ stack[j].phase = "body"

\* the innermost construct a fatal error left
Left(n) == IF n.items = <<>> THEN <<"", "">> ELSE n.items[Len(n.items)]

\* C1: a break or continue tag read by Node::many is accepted, as a Break
\* or Continue node, exactly when the loop counter is positive, which is
\* exactly when the tag is inside the body of a `for`; otherwise (top
\* level, or the else body of a `for` outside any `for` body) the parse
\* fails fatally.
C1_LoopControlNeedsLoop ==
    [][(status = "run" /\ AtMany /\ chunk' \in LoopChunks) =>
           /\ is_in_loop(loop_depth) <=> InForBody
           /\ IF is_in_loop(loop_depth)
              THEN status' = "run" /\ node'.type \in {"Break", "Continue"}
              ELSE status' = "failed"]_vars

\* a break or continue in the else body of a top-level `for` has failed
C1_Witness ==
    /\ chunk \in LoopChunks
    /\ status = "failed"
    /\ node.items = << <<"for", "else">> >>

\* the number of `for` bodies entered and not yet returned
OpenBodies ==
    Cardinality({j \in DOMAIN stack :
                    stack[j].kind = "for" /\ stack[j].phase = "body"})

\* C2: the loop counter is the number of `for` bodies being parsed: every
\* body that has returned, with success or with a fatal error, has put the
\* counter back, so it is never negative and is 0 once the parse is over.
C2_CounterRestored ==
    /\ loop_depth >= 0
    /\ loop_depth = OpenBodies
    /\ status \in {"done", "failed"} => loop_depth = 0

\* a fatal error has left the body of a `for`
C2_Witness ==
    /\ status = "failed"
    /\ \E j \in DOMAIN node.items : node.items[j] = <<"for", "body">>
    /\ loop_depth = 0

\* the keyword of a block tag, as the dispatcher matches it: after the
\* optional trim marker, which Node::extends does not read
tag_keyword(c) ==
    Bind([start \in {tag_block_start(DefaultSyntax, c)} |->
    IF start.k # "Ok" THEN ""
    ELSE Bind([pws \in {opt_Whitespace(start.i)} |->
         Bind([id \in {ws_post(identifier(skip_ws(pws.i)))} |->
         IF id.k = "Ok" /\ (id.v = "extends" => pws.v = "None")
         THEN id.v ELSE ""])])])

DispatchKeywords ==
    {"call", "let", "set", "if", "for", "match", "extends", "include",
     "import", "block", "macro", "raw"}

\* C3: once the keyword of a construct of the dispatcher has matched, the
\* tag is either accepted or the parse fails fatally: Node::many never
\* stops silently at it.
C3_FailuresAfterKeywordAreFatal ==
    [][(status = "run" /\ AtMany /\ tag_keyword(chunk') \in DispatchKeywords) =>
           \/ status' = "failed"
           \/ status' = "run" /\ (node' # NoNode \/ Len(stack') > Len(stack))]_vars

IsElseArm(a) == a.target = <<"Name", "_">>
IsWhenTag(c) == When_when(c, DefaultSyntax).k = "Ok"

\* C4: the arm list of a Match node is its `when` arms in source order
\* followed by the else arm, if any, so an else arm is always last; a
\* `when` tag after the else arm is a fatal error.
C4_ElseArmLast ==
    [][/\ node'.type = "Match" =>
             /\ \A j \in DOMAIN node'.items :
                   IsElseArm(node'.items[j]) => j = Len(node'.items)
             /\ node'.items = Top.items \o Top.extra
       /\ (/\ status = "run" /\ stack # <<>>
           /\ Top.kind = "match" /\ Top.phase = "else"
           /\ IsWhenTag(chunk')) => status' = "failed"]_vars

\* a `when` tag after `when`, `when`, `else` has failed the parse
C4_Witness ==
    /\ status = "failed"
    /\ IsWhenTag(chunk)
    /\ Left(node) = <<"match", "else">>

\* C4 as stated: a `when` tag after the else arm is accepted
C4_WhenAfterElseAccepted ==
    [][(/\ status = "run" /\ stack # <<>>
        /\ Top.kind = "match" /\ Top.phase = "else"
        /\ Len(Top.items) = 2
        /\ IsWhenTag(chunk')) => status' = "run"]_vars

\* the keyword and the name of a closing tag
end_words(c) ==
    Bind([start \in {tag_block_start(DefaultSyntax, c)} |->
    IF start.k # "Ok" THEN <<"", "">>
    ELSE Bind([pws \in {opt_Whitespace(start.i)} |->
         Bind([kw \in {ws_post(identifier(skip_ws(pws.i)))} |->
         IF kw.k # "Ok" THEN <<"", "">>
         ELSE Bind([nm \in {ws_post(identifier(skip_ws(kw.i)))} |->
              <<kw.v, IF nm.k = "Ok" THEN nm.v ELSE "">>])])])])

\* the closing tag of the innermost construct, a block or a macro, is next
AtNamedEnd(c) ==
    /\ status = "run" /\ stack # <<>>
    /\ \/ Top.kind = "block" /\ end_words(c)[1] = "endblock"
       \/ Top.kind = "macro" /\ end_words(c)[1] = "endmacro" /\ Top.name # "super"

Named(n, f) ==
    /\ n.type = (IF f.kind = "block" THEN "BlockDef" ELSE "Macro")
    /\ n.name = f.name

C6_ElseBranchOnlyLast ==
    node.type = "Cond" =>
        /\ node.items # <<>>
        /\ node.items[1].cond[1] = "Some"
        /\ \A j \in DOMAIN node.items :
              node.items[j].cond[1] = "None" => j = Len(node.items)

\* the trim markers written in a tag
marker(ch) == IF ch \in {"-", "+", "~"} THEN Whitespace_from(ch) ELSE "None"
marker_after_open(c) == marker(Ch(c, 3))
marker_before_close(c) == marker(Ch(c, Len(c) - 2))
\* the trim markers a leaf node records
Markers(n) == IF n.ws = <<>> THEN Ws("None", "None") ELSE n.ws[1]

\* well-formed leaf tags, with and without trim markers
LeafTags ==
    {"{{- e +}}", "{%- call s::m(e) -%}", "{%~ let a = e +%}",
     "{%- include \"t\" ~%}", "{%+ import \"t\" as s -%}",
     "{% extends \"t\" %}", "{%- extends \"t\" %}", "{% extends \"t\" -%}"}

\* C8: a leaf tag is accepted with any trim markers, and its node records
\* the marker after the opening delimiter on the left and the marker
\* before the closing delimiter on the right, None where there is none.
C8_TrimMarkersRecorded ==
    [][(status = "run" /\ AtMany /\ chunk' \in LeafTags) =>
           /\ status' = "run"
           /\ node' # NoNode
           /\ Markers(node') = Ws(marker_after_open(chunk'),
                                  marker_before_close(chunk'))]_vars

\* C13: a macro named `super` never becomes a Macro node, and the parse
\* never ends outside its declared outcomes: it goes on, has succeeded or
\* has failed with an error.
C13_SuperMacroIsAnError ==
    /\ status \in {"run", "done", "failed"}
    /\ node.type = "Macro" => node.name # "super"

----------------------------------------------------------------------------
(* Node::many on short texts, character by character (SpecLit) *)

LitAlphabet == {"x", " ", "{", "#", "}"}

InitLit ==
    /\ IdleMain
    /\ IdleComment
    /\ IdleRaw
    /\ IdleTarget
    /\ lin = ""
    /\ li = ""
    /\ lres = "input"
    /\ lnodes = <<>>

\* one more character of the template
l_type ==
    \E ch \in LitAlphabet :
        /\ lres = "input"
        /\ Len(lin) < MaxLitLen
        /\ lin' = lin \o ch
        /\ UNCHANGED <<li, lres, lnodes, mainVars, commentVars, rawVars, targetVars>>

\* Node::many is called on the template
l_call ==
    /\ lres = "input"
    /\ lres' = "many"
    /\ li' = lin
    /\ UNCHANGED <<lin, lnodes, mainVars, commentVars, rawVars, targetVars>>

\* an iteration of many0 has yielded a node: result m of the alternatives
l_node(m) ==
    /\ m.r.k = "Ok"
    /\ lnodes' = Append(lnodes, m.r.v)
    /\ li' = m.r.i
    /\ UNCHANGED <<lin, lres, mainVars, commentVars, rawVars, targetVars>>

\* Node::content yields a Lit
l_content ==
    /\ lres = "many"
    /\ \E m \in {many_alt(li, DefaultSyntax, 0)} : m.c = "content" /\ l_node(m)

\* Node::comment yields a Comment
l_comment ==
    /\ lres = "many"
    /\ \E m \in {many_alt(li, DefaultSyntax, 0)} : m.c = "comment" /\ l_node(m)

\* no alternative matches: many0 returns the nodes
l_return ==
    /\ lres = "many"
    /\ many_alt(li, DefaultSyntax, 0).r.k = "Error"
    /\ lres' = "done"
    /\ UNCHANGED <<lin, li, lnodes, mainVars, commentVars, rawVars, targetVars>>

\* an alternative fails fatally: many0 returns the failure
l_fail ==
    /\ lres = "many"
    /\ many_alt(li, DefaultSyntax, 0).r.k = "Failure"
    /\ lres' = "failed"
    /\ UNCHANGED <<lin, li, lnodes, mainVars, commentVars, rawVars, targetVars>>

NextLit == l_type \/ l_call \/ l_content \/ l_comment \/ l_return \/ l_fail

SpecLit == InitLit /\ [][NextLit]_vars

\* the text holds no block, comment or expression start
NoDelimiter(t) ==
    /\ ~Contains(t, DefaultSyntax.block_start)
    /\ ~Contains(t, DefaultSyntax.comment_start)
    /\ ~Contains(t, DefaultSyntax.expr_start)

AllWs(t) == \A n \in 1..Len(t) : is_ws(Ch(t, n))

\* C7: for a text without a block, comment or expression start,
\* Node::many yields no node when the text is empty and otherwise exactly
\* one Lit, whose three fields are the leading whitespace, the core and the
\* trailing whitespace of the text: together they are the text, and the
\* core is the whole text when the text neither starts nor ends with
\* whitespace.
C7_OneLitSplit ==
    (lres = "done" /\ NoDelimiter(lin)) =>
        IF lin = "" THEN lnodes = <<>>
        ELSE /\ Len(lnodes) = 1
             /\ lnodes[1].type = "Lit"
             /\ lnodes[1].lws \o lnodes[1].val \o lnodes[1].rws = lin
             /\ AllWs(lnodes[1].lws) /\ AllWs(lnodes[1].rws)
             /\ lnodes[1].val # "" =>
                   /\ ~is_ws(Ch(lnodes[1].val, 1))
                   /\ ~is_ws(Ch(lnodes[1].val, Len(lnodes[1].val)))
             /\ (~is_ws(Ch(lin, 1)) /\ ~is_ws(Ch(lin, Len(lin)))) =>
                   lnodes[1].val = lin

\* a text with whitespace on both sides of its core has been parsed
C7_Witness ==
    /\ lres = "done"
    /\ NoDelimiter(lin)
    /\ Len(lnodes) = 1
    /\ lnodes[1].lws # "" /\ lnodes[1].val # "" /\ lnodes[1].rws # ""

\* C7 as stated: the one Lit has the whole text as its core
C7_CoreIsInput ==
    (lres = "done" /\ NoDelimiter(lin)) =>
        /\ Len(lnodes) = 1
        /\ lnodes[1].type = "Lit"
        /\ lnodes[1].val = lin

----------------------------------------------------------------------------
(* Node::comment, one step of its body loop at a time (SpecComment) *)

\* a syntax with HTML comment delimiters
HtmlSyntax ==
    [DefaultSyntax EXCEPT !.comment_start = "<!--", !.comment_end = "-->"]

Syntaxes == {DefaultSyntax, HtmlSyntax}

\* the pieces an input is made of, after its comment start
Pieces(s) == {s.comment_start, s.comment_end, "-", ">"}

InitComment ==
    /\ IdleMain
    /\ IdleLit
    /\ IdleRaw
    /\ IdleTarget
    /\ csyntax \in Syntaxes
    /\ cin = <<csyntax.comment_start>>
    /\ ci = ""
    /\ clevel = 0
    /\ cpc = "input"
    /\ cpws = "None"
    /\ ctail = ""
    /\ cres = "none"
    /\ cnode = NoNode

\* one more piece of the input
c_piece ==
    \E x \in Pieces(csyntax) :
        /\ cpc = "input"
        /\ Len(cin) < MaxPieces
        /\ cin' = Append(cin, x)
        /\ UNCHANGED <<csyntax, ci, clevel, cpc, cpws, ctail, cres, cnode,
                       mainVars, litVars, rawVars, targetVars>>

\* tag_comment_start and opt(Whitespace::parse) (lines 456-458)
c_start ==
    /\ cpc = "input"
    /\ \E start \in {tag_comment_start(csyntax, Concat(cin))} :
       \E pws \in {opt_Whitespace(start.i)} :
          /\ start.k = "Ok"
          /\ cpws' = pws.v
          /\ ci' = pws.i
    /\ clevel' = 0
    /\ cpc' = "body"
    /\ UNCHANGED <<csyntax, cin, ctail, cres, cnode, mainVars, litVars, rawVars, targetVars>>

\* an iteration n of the body loop that goes on (lines 442-449)
c_loop(n) ==
    /\ n.loop
    /\ ci' = n.i
    /\ clevel' = n.level
    /\ UNCHANGED <<csyntax, cin, cpc, cpws, ctail, cres, cnode, mainVars, litVars, rawVars, targetVars>>

\* a nested comment start (lines 442-445)
c_nest ==
    /\ cpc = "body"
    /\ \E n \in {body_step(ci, clevel, csyntax)} : n.level > clevel /\ c_loop(n)

\* the end of a nested comment (lines 446-449)
c_unnest ==
    /\ cpc = "body"
    /\ \E n \in {body_step(ci, clevel, csyntax)} : n.level < clevel /\ c_loop(n)

\* the body returns its tail (line 450)
c_body_return ==
    /\ cpc = "body"
    /\ \E n \in {body_step(ci, clevel, csyntax)} :
          /\ ~n.loop
          /\ n.r.k = "Ok"
          /\ ci' = n.r.i
          /\ ctail' = n.r.v
    /\ cpc' = "end"
    /\ UNCHANGED <<csyntax, cin, clevel, cpws, cres, cnode, mainVars, litVars, rawVars, targetVars>>

\* no comment end is left (line 440): the cut makes the error fatal
c_body_fail ==
    /\ cpc = "body"
    /\ \E n \in {body_step(ci, clevel, csyntax)} :
          /\ ~n.loop
          /\ cut(n.r).k = "Failure"
    /\ cres' = "Failure"
    /\ cpc' = "done"
    /\ UNCHANGED <<csyntax, cin, ci, clevel, cpws, ctail, cnode, mainVars, litVars, rawVars, targetVars>>

\* tag_comment_end and the Comment node (lines 459-473)
c_end ==
    /\ cpc = "end"
    /\ \E end \in {cut(tag_comment_end(csyntax, ci))} :
          /\ cres' = end.k
          /\ ci' = end.i
          /\ cnode' = IF end.k = "Ok"
                      THEN Node("Comment", <<Ws(cpws, comment_nws(ctail))>>, "", <<>>)
                      ELSE NoNode
    /\ cpc' = "done"
    /\ UNCHANGED <<csyntax, cin, clevel, cpws, ctail, mainVars, litVars, rawVars, targetVars>>

NextComment ==
    c_piece \/ c_start \/ c_nest \/ c_unnest \/ c_body_return \/ c_body_fail
    \/ c_end

SpecComment == InitComment /\ [][NextComment]_vars

\* The input left after the comment end that balances the comment starts
\* of i, read at nesting level `level`; <<"unbalanced">> when there is none.
RECURSIVE balanced(_, _, _)
balanced(i, level, s) ==
    Bind([e \in {Find(i, s.comment_end)} |->
    Bind([st \in {Find(i, s.comment_start)} |->
    IF e > Len(i) THEN <<"unbalanced">>
    ELSE IF st < e
    THEN balanced(Drop(i, st + Len(s.comment_start)), level + 1, s)
    ELSE IF level > 0
    THEN balanced(Drop(i, e + Len(s.comment_end)), level - 1, s)
    ELSE <<"rest", Drop(i, e + Len(s.comment_end))>>])])

\* the input of the body: after the comment start and its trim marker
body_input ==
    opt_Whitespace(tag_comment_start(csyntax, Concat(cin)).i).i

\* C9: with any comment delimiters, a comment ends at the comment end that
\* balances its comment starts, as one Comment node, and is a fatal error
\* when there is no such comment end.
C9_NestedCommentsBalanced ==
    cpc = "done" =>
        Bind([b \in {balanced(body_input, 0, csyntax)} |->
        IF b[1] = "unbalanced" THEN cres = "Failure"
        ELSE cres = "Ok" /\ cnode.type = "Comment" /\ ci = b[2]])

\* the text of the comment that has been read, from its start to its end
comment_text == Take(Concat(cin), Len(Concat(cin)) - Len(ci))

\* C10: the right trim marker of a Comment node is given by the character
\* just before the closing delimiter of the comment.
C10_RightMarkerFromLastChar ==
    (cpc = "done" /\ cres = "Ok") =>
        cnode.ws[1][2] =
            marker(Ch(comment_text, Len(comment_text) - Len(csyntax.comment_end)))

----------------------------------------------------------------------------
(* Node::parse on one raw construct, one step per iteration of skip_till   *)
(* (SpecRaw)                                                               *)

MaxRawPieces == 4      \* pieces of one raw input, its opening tag included

RawOpenings == {"{% raw %}", "{%- raw +%}"}
RawPieces == {" ", "{% if x %}", "{% endraw %}", "{%~ endraw -%}",
              "{%", "endraw", "%}"}

InitRaw ==
    /\ IdleMain
    /\ IdleComment
    /\ IdleLit
    /\ IdleTarget
    /\ rin \in {<<t>> : t \in RawOpenings}
    /\ ri = ""
    /\ rstart = ""
    /\ rws1 = Ws("None", "None")
    /\ rpc = "input"
    /\ rres = "none"
    /\ rnode = NoNode

\* one more piece of the input
r_piece ==
    \E x \in RawPieces :
        /\ rpc = "input"
        /\ Len(rin) < MaxRawPieces
        /\ rin' = Append(rin, x)
        /\ UNCHANGED <<ri, rstart, rws1, rpc, rres, rnode,
                       mainVars, commentVars, litVars, targetVars>>

\* tag_block_start (line 70) and Node::raw up to the raw text (lines 376-381)
r_open ==
    /\ rpc = "input"
    /\ \E start \in {tag_block_start(DefaultSyntax, Concat(rin))} :
       \E o \in {raw_open(start.i, DefaultSyntax)} :
          /\ start.k = "Ok" /\ o.k = "Ok"
          /\ rws1' = o.v.ws[1]
          /\ ri' = o.i
          /\ rstart' = o.i
    /\ rpc' = "skip"
    /\ UNCHANGED <<rin, rres, rnode, mainVars, commentVars, litVars, targetVars>>

\* skip_till (line 382): endraw does not match here, a character is skipped
r_skip ==
    /\ rpc = "skip"
    /\ ri # ""
    /\ \E e \in {endraw(ri, DefaultSyntax)} : e.k # "Ok"
    /\ ri' = Drop(ri, 1)
    /\ UNCHANGED <<rin, rstart, rws1, rpc, rres, rnode,
                   mainVars, commentVars, litVars, targetVars>>

\* skip_till at the end of the input: the cut of line 378 makes it fatal
r_eof ==
    /\ rpc = "skip"
    /\ ri = ""
    /\ rres' = "Failure"
    /\ rpc' = "done"
    /\ UNCHANGED <<rin, ri, rstart, rws1, rnode,
                   mainVars, commentVars, litVars, targetVars>>

\* endraw matches: the Raw node (lines 385-393) and the cut(tag_block_end)
\* of Node::parse (line 86)
r_endraw ==
    /\ rpc = "skip"
    /\ \E e \in {endraw(ri, DefaultSyntax)} :
       \E c \in {close(e, DefaultSyntax)} :
          /\ e.k = "Ok"
          /\ rres' = c.k
          /\ ri' = c.i
          /\ rnode' = IF c.k = "Ok"
                      THEN Raw_node(rws1, Take(rstart, Len(rstart) - Len(ri)), e.v)
                      ELSE NoNode
    /\ rpc' = "done"
    /\ UNCHANGED <<rin, rstart, rws1, mainVars, commentVars, litVars, targetVars>>

NextRaw == r_piece \/ r_open \/ r_skip \/ r_eof \/ r_endraw

SpecRaw == InitRaw /\ [][NextRaw]_vars

\* the trim markers a tag may carry, "" for none
MarkerChars == {"", "-", "+", "~"}
Blanks == {"", " ", "  "}
marker_of(m) == IF m = "" THEN "None" ELSE Whitespace_from(m)

\* the true endraw tags: block start, optional marker, endraw, optional
\* marker, block end, with blanks around the keyword
EndrawTags ==
    {[text |-> "{%" \o m1 \o a \o "endraw" \o b \o m2 \o "%}",
      ws |-> Ws(marker_of(m1), marker_of(m2))] :
        <<m1, a, b, m2>> \in MarkerChars \X Blanks \X Blanks \X MarkerChars}

\* the true endraw tags that text t starts with
EndrawAt(t) == {e \in EndrawTags : StartsWith(t, e.text)}

\* the offsets of text t at which a true endraw tag starts
EndrawOffsets(t) == {n \in 0..Len(t) : EndrawAt(Drop(t, n)) # {}}

\* C11: a raw construct is closed by the first true endraw tag after its
\* opening tag and by nothing else: the parse succeeds exactly when there
\* is one, the left whitespace, core and right whitespace of the Raw node
\* together are the text between the opening tag and that tag, the node
\* carries the tag's trim markers, and the parse goes on after the tag.
C11_RawIsVerbatim ==
    rpc = "done" =>
        IF EndrawOffsets(rstart) = {} THEN rres = "Failure"
        ELSE \E n \in EndrawOffsets(rstart) : \E e \in EndrawAt(Drop(rstart, n)) :
               /\ \A k \in EndrawOffsets(rstart) : n <= k
               /\ rres = "Ok"
               /\ rnode.type = "Raw"
               /\ Concat(rnode.items) = Take(rstart, n)
               /\ rnode.ws = <<rws1, e.ws>>
               /\ ri = Drop(rstart, n + Len(e.text))

\* `{% raw %}{% if x %}{% endraw %}` has been parsed: core `{% if x %}`
C11_Witness ==
    /\ rpc = "done"
    /\ rin = <<"{% raw %}", "{% if x %}", "{% endraw %}">>
    /\ rres = "Ok"
    /\ rnode.items = <<"", "{% if x %}", "">>

\* a near miss of an endraw tag is part of the raw text
C11_NearMissWitness ==
    /\ rpc = "done"
    /\ rres = "Ok"
    /\ rin = <<"{%- raw +%}", "{%", "endraw", "{%~ endraw -%}">>
    /\ rnode.items = <<"", "{%endraw", "">>

----------------------------------------------------------------------------
(* Target::parse on patterns written from their structure (SpecTarget).    *)
(* A pattern is written bottom up: each entry of tpats is the text of a    *)
(* pattern with the value the grammar gives it.                            *)

MaxPatterns == 3       \* patterns side by side
MaxNesting == 2        \* parentheses inside one another
MaxPatternLen == 9     \* characters of the patterns written

Pattern(text, val, depth) == [text |-> text, val |-> val, depth |-> depth]
PatternLeaves ==
    {Pattern("x", <<"Name", "x">>, 0), Pattern("y", <<"Name", "y">>, 0),
     Pattern("1", <<"NumLit", "1">>, 0)}
Pads == {"", " "}
Commas == {",", " , "}

\* no entry is an unclosed list
AllClosed == \A j \in DOMAIN tpats : tpats[j].val[1] \notin {"Unclosed", "Opened"}
Last == tpats[Len(tpats)]
RECURSIVE Depth(_)
\* the deepest nesting among patterns ps
Depth(ps) ==
    IF ps = <<>> THEN 0
    ELSE Bind([d \in {Depth(Tail(ps))} |->
         IF ps[1].depth > d THEN ps[1].depth ELSE d])
Vals(ps) == [j \in DOMAIN ps |-> ps[j].val]
RECURSIVE Joined(_, _)
\* the texts of patterns ps, separated by sep
Joined(ps, sep) ==
    IF ps = <<>> THEN ""
    ELSE IF Len(ps) = 1 THEN ps[1].text
    ELSE ps[1].text \o sep \o Joined(Tail(ps), sep)
\* the entries before the last n, and the last n
Before(n) == SubSeq(tpats, 1, Len(tpats) - n)
LastN(n) == SubSeq(tpats, Len(tpats) - n + 1, Len(tpats))

InitTarget ==
    /\ IdleMain
    /\ IdleComment
    /\ IdleLit
    /\ IdleRaw
    /\ tpats = <<>>
    /\ tpc = "write"
    /\ tres = Error("")
    /\ tlet = Error("")

Write(ps) ==
    /\ tpc = "write"
    /\ AllClosed
    /\ Len(Joined(ps, "")) <= MaxPatternLen
    /\ tpats' = ps
    /\ UNCHANGED <<tpc, tres, tlet, mainVars, commentVars, litVars, rawVars>>

\* a name or a literal
t_leaf ==
    \E l \in PatternLeaves :
        /\ Len(tpats) < MaxPatterns
        /\ Write(Append(tpats, l))

\* `()`
t_empty ==
    \E pad \in Pads :
        /\ Len(tpats) < MaxPatterns
        /\ Write(Append(tpats, Pattern("(" \o pad \o ")", <<"Tuple", <<>>, <<>>>>, 1)))

\* `(P)`: parentheses around the last pattern
t_paren ==
    \E pad \in Pads :
        /\ tpats # <<>>
        /\ Last.depth < MaxNesting
        /\ Write([tpats EXCEPT ![Len(tpats)] =
                     Pattern("(" \o pad \o Last.text \o pad \o ")", Last.val,
                             Last.depth + 1)])

\* `(P1, ..., Pn)` and `(P1, ..., Pn,)` around the last n patterns: a
\* comma is needed when n = 1
t_tuple ==
    \E n \in 1..MaxPatterns : \E sep \in Commas : \E trail \in Commas \cup {""} :
        /\ n <= Len(tpats)
        /\ Depth(LastN(n)) < MaxNesting
        /\ n = 1 => trail # ""
        /\ Write(Append(Before(n),
                        Pattern("(" \o Joined(LastN(n), sep) \o trail \o ")",
                                <<"Tuple", <<>>, Vals(LastN(n))>>,
                                Depth(LastN(n)) + 1)))

\* `(P1, ..., Pn` and `(P1, ..., Pn,` with no closing parenthesis
t_unclosed ==
    \E sep \in Commas : \E trail \in Commas \cup {""} :
        /\ tpats # <<>>
        /\ Write(<<Pattern("(" \o Joined(tpats, sep) \o trail, <<"Unclosed">>,
                           Depth(tpats) + 1)>>)

\* `(` followed by no pattern
t_opened ==
    /\ tpats = <<>>
    /\ Write(<<Pattern("(", <<"Opened">>, 1)>>)

\* Target::parse on the pattern, and Node::let (with the cut(tag_block_end)
\* of Node::parse) on a `let` tag that holds it
t_parse ==
    /\ tpc = "write"
    /\ Len(tpats) = 1
    /\ tres' = Target_parse(tpats[1].text)
    /\ tlet' = close(r_let(" let " \o tpats[1].text \o " = e %}"), DefaultSyntax)
    /\ tpc' = "done"
    /\ UNCHANGED <<tpats, mainVars, commentVars, litVars, rawVars>>

NextTarget ==
    t_leaf \/ t_empty \/ t_paren \/ t_tuple \/ t_unclosed \/ t_opened \/ t_parse

SpecTarget == InitTarget /\ [][NextTarget]_vars

\* C12: `()` is the empty tuple, `(P)` is what P is, `(P,)` is the tuple of
\* P, `(P1, ..., Pn)` with or without a trailing comma is the tuple of
\* P1..Pn in source order, and a list of patterns that is opened and not
\* closed by `)` is a fatal error; an opening parenthesis followed by no
\* pattern is a fatal error of the tag that holds the pattern.
C12_ParensAndTuples ==
    tpc = "done" =>
        \E p \in {tpats[1]} :
            CASE p.val[1] = "Unclosed" -> tres.k = "Failure" /\ tlet.k = "Failure"
              [] p.val[1] = "Opened" -> tlet.k = "Failure"
              [] OTHER -> /\ tres = Ok("", p.val)
                          /\ tlet.k = "Ok"
                          /\ tlet.v.type = "Let"
                          /\ tlet.v.items[1] = p.val

\* `((1,x),y)` has been parsed: the tuple of the tuple of 1 and x, and y
C12_Witness ==
    /\ tpc = "done"
    /\ tpats[1].text = "((1,x),y)"
    /\ tres.k = "Ok"
    /\ tres.v = <<"Tuple", <<>>,
                  <<<<"Tuple", <<>>, <<<<"NumLit", "1">>, <<"Name", "x">>>>>>,
                    <<"Name", "y">>>>>>

====
